---------------------------- MODULE Spec2Model ----------------------------
(***************************************************************************)
(* Model of tools/qingping_sensor_server.py: the SensorDataStore record    *)
(* shared by all requests, and the GET and POST handlers of                *)
(* SensorHTTPRequestHandler that read and update it.                       *)
(*                                                                         *)
(* Optional[T] fields are sets with at most one element: None is {} and a  *)
(* value v is {v}.  A Python dict is a function whose DOMAIN is its keys.  *)
(* Request bodies are named samples, one per way the body can travel       *)
(* through rfile.read / decode / json.loads / data.get.                    *)
(***************************************************************************)
EXTENDS Integers, FiniteSets, Sequences, TLC

VARIABLES
    latest_data,      \* SensorDataStore.latest_data
    last_updated,     \* SensorDataStore.last_updated
    total_received,   \* SensorDataStore.total_received
    error_count,      \* SensorDataStore.error_count
    clock,            \* datetime.now(): the number of requests that have arrived
    lastReq,          \* history: the request handled by the last step
    lastResp,         \* history: what the client of that request got back
    okPosts,          \* history: data-endpoint POSTs answered 200
    errPosts,         \* history: data-endpoint POSTs answered 400 or 500
    lastOkPayload,    \* history: the parsed body of the latest POST answered 200
    pc,               \* statement level: where each handler instance stands
    job,              \* statement level: the request each handler instance serves
    local,            \* statement level: each handler's value read for a +=
    building,         \* statement level: the stats dict each handler is filling
    observed,         \* statement level: the stats dict the last GET /stats sent
    committed,        \* history: add_reading calls that have returned
    counted,          \* history: increment_errors calls that have returned
    quiescent         \* history: Stats at the moments no handler was running

store == <<latest_data, last_updated, total_received, error_count>>
history == <<lastReq, lastResp, okPosts, errPosts, lastOkPayload>>
statements == <<pc, job, local, building, observed, committed, counted, quiescent>>
vars == <<latest_data, last_updated, total_received, error_count, clock,
          lastReq, lastResp, okPosts, errPosts, lastOkPayload,
          pc, job, local, building, observed, committed, counted, quiescent>>

\* The number of requests a behaviour handles.
MaxRequests == 3

\* The number of handler instances that can exist at once.
MaxHandlers == 2

None == {}
Some(v) == {v}
Value(opt) == CHOOSE v \in opt : TRUE

\* dict.get(key, default)
DictGet(d, key, default) == IF key \in DOMAIN d THEN d[key] ELSE default

EmptyDict == [k \in {} |-> ""]

---------------------------------------------------------------------------
(* Requests *)

HeaderNames == {"X-Source-IP", "X-Destination-IP", "X-Destination-Port",
                "X-Protocol", "X-Timestamp", "X-MQTT-Topic"}

\* A value a forwarder sends for each header.
SampleHeaderValue ==
    [h \in HeaderNames |->
        CASE h = "X-Source-IP"        -> "10.0.0.7"
          [] h = "X-Destination-IP"   -> "10.0.0.1"
          [] h = "X-Destination-Port" -> "1883"
          [] h = "X-Protocol"         -> "TCP"
          [] h = "X-Timestamp"        -> "2024-01-01T00:00:00Z"
          [] h = "X-MQTT-Topic"       -> "qingping/up"]

\* An IPv6 link-local source address with its zone: it holds a '%'.
ZonedSourceIP == "fe80::1%eth0"

\* The strings of the model that hold a '%' followed by text that is no
\* printf conversion with an argument: format % () raises on them.
HasPercent(s) == s \in {ZonedSourceIP}

NoHeaders == EmptyDict
HeadersOf(S) == [h \in S |-> SampleHeaderValue[h]]

\* The forwarding headers of a request: none, all six, exactly one, or a
\* zoned source address alone.
HeaderMaps ==
    {NoHeaders, HeadersOf(HeaderNames)}
        \cup {HeadersOf({h}) : h \in HeaderNames}
        \cup {[h \in {"X-Source-IP"} |-> ZonedSourceIP]}

\* Parsed JSON documents.
JObject(members) == [type |-> "object", members |-> members]
JArray == [type |-> "array", members |-> EmptyDict]
JNull == [type |-> "null", members |-> EmptyDict]

ReadingA == JObject([k \in {"mac", "temperature"} |->
                        IF k = "mac" THEN "AA:01" ELSE "21.5"])
ReadingB == JObject([k \in {"mac", "humidity"} |->
                        IF k = "mac" THEN "BB:02" ELSE "40"])

\* Request bodies: two JSON objects, a JSON array, the JSON null, text that
\* is no JSON, bytes that are no UTF-8, and a JSON array nested deeper than
\* the parser's recursion limit.
JsonBodies == {"objA", "objB", "array", "null"}
Bodies == JsonBodies \cup {"bad_json", "bad_utf8", "too_deep"}

\* len(body) in bytes.
ByteLength(body) ==
    CASE body = "objA"     -> 36
      [] body = "objB"     -> 31
      [] body = "array"    -> 3
      [] body = "null"     -> 4
      [] body = "bad_json" -> 4
      [] body = "bad_utf8" -> 2
      [] body = "too_deep" -> 200000

\* The Content-Length header: absent, or its text.  "exact" stands for the
\* decimal text of len(body).  A length other than len(body), and -1 (read
\* until the client closes), are not among the samples.
Absent == "<absent>"
ContentLengths == {Absent, "0", "abc", "-5", "exact"}

Paths == {"/", "/index.html", "/stats", "/sensor-data", "/other"}
DataPaths == {"/", "/sensor-data"}

Request(m, p, cl, b, h) ==
    [method |-> m, path |-> p, content_length |-> cl, body |-> b, headers |-> h]

GetRequests == {Request("GET", p, Absent, "", NoHeaders) : p \in Paths}

\* Forwarding headers vary on the requests whose body is read and parsed to
\* a document; the other requests carry none.
PostRequests ==
    {Request("POST", p, "exact", "objA", NoHeaders) : p \in Paths \ DataPaths}
    \cup {Request("POST", p, cl, b, NoHeaders) :
            p \in DataPaths, cl \in ContentLengths \ {"exact"},
            b \in {"objA", "bad_json"}}
    \cup {Request("POST", p, "exact", b, NoHeaders) :
            p \in DataPaths, b \in Bodies \ JsonBodies}
    \cup {Request("POST", p, "exact", b, h) :
            p \in DataPaths, b \in JsonBodies, h \in HeaderMaps}

NoRequest == Request("-", "-", Absent, "", NoHeaders)

---------------------------------------------------------------------------
(* Library calls made by do_POST *)

\* int(self.headers.get('Content-Length', 0)): the exception it raises, and
\* its value when it raises none.
ContentLengthInt(req) ==
    LET cl == req.content_length IN
    CASE cl = Absent  -> [exc |-> "none", value |-> 0]
      [] cl = "0"     -> [exc |-> "none", value |-> 0]
      [] cl = "-5"    -> [exc |-> "none", value |-> 0 - 5]
      [] cl = "exact" -> [exc |-> "none", value |-> ByteLength(req.body)]
      [] OTHER        -> [exc |-> "ValueError", value |-> 0]

\* self.rfile.read(n) on a body of n bytes; a size below -1 is refused.
RfileRead(req, n) ==
    IF n < 0 - 1 THEN [exc |-> "ValueError", bytes |-> ""]
    ELSE [exc |-> "none", bytes |-> req.body]

\* json.loads(bytes.decode('utf-8')).
JsonLoads(bytes) ==
    CASE bytes = "objA"     -> [exc |-> "none", value |-> ReadingA]
      [] bytes = "objB"     -> [exc |-> "none", value |-> ReadingB]
      [] bytes = "array"    -> [exc |-> "none", value |-> JArray]
      [] bytes = "null"     -> [exc |-> "none", value |-> JNull]
      [] bytes = "bad_utf8" -> [exc |-> "UnicodeDecodeError", value |-> JNull]
      [] bytes = "too_deep" -> [exc |-> "RecursionError", value |-> JNull]
      [] OTHER              -> [exc |-> "JSONDecodeError", value |-> JNull]

\* data.get('mac', 'unknown'): only a dict has .get.
DataGetMac(data) ==
    IF data.type = "object"
    THEN [exc |-> "none", value |-> DictGet(data.members, "mac", "unknown")]
    ELSE [exc |-> "AttributeError", value |-> ""]

\* log_message(f"...{mac}...{source}...") is called with no arguments, and
\* evaluates format % (): a '%' in the text raises.
LogReceiptRaises(mac, source) == HasPercent(mac) \/ HasPercent(source)

---------------------------------------------------------------------------
(* SensorDataStore *)

\* datetime.now() while the next request is handled.
Now == clock + 1

StoreInit ==
    /\ latest_data = None
    /\ last_updated = None
    /\ total_received = 0
    /\ error_count = 0

Metadata(headers) ==
    [source_ip        |-> DictGet(headers, "X-Source-IP", "unknown"),
     destination_ip   |-> DictGet(headers, "X-Destination-IP", "unknown"),
     destination_port |-> DictGet(headers, "X-Destination-Port", "unknown"),
     protocol         |-> DictGet(headers, "X-Protocol", "unknown"),
     timestamp        |-> DictGet(headers, "X-Timestamp", "unknown"),
     mqtt_topic       |-> DictGet(headers, "X-MQTT-Topic", "N/A")]

\* add_reading as it would be if the timestamp were set on the first reading
\* only.
add_reading_first_time_only(data, headers) ==
    /\ latest_data' = Some([sensor_data |-> data, metadata |-> Metadata(headers)])
    /\ last_updated' = IF last_updated = None THEN Some(Now) ELSE last_updated
    /\ total_received' = total_received + 1

\* add_reading as it would be if it updated the stored reading in place
\* (dict.update) and kept a stored metadata value where the request has none.
add_reading_merging(data, headers) ==
    LET old == IF latest_data = None
               THEN [sensor_data |-> JNull, metadata |-> Metadata(EmptyDict)]
               ELSE Value(latest_data)
        members == [k \in DOMAIN data.members \cup DOMAIN old.sensor_data.members |->
                        IF k \in DOMAIN data.members
                        THEN data.members[k] ELSE old.sensor_data.members[k]]
        fresh == Metadata(headers)
        metadata == [f \in DOMAIN fresh |->
                        IF latest_data # None /\ fresh[f] = ""
                        THEN old.metadata[f] ELSE fresh[f]]
    IN
    /\ latest_data' = Some([sensor_data |-> [type |-> data.type, members |-> members],
                            metadata |-> metadata])
    /\ last_updated' = Some(Now)
    /\ total_received' = total_received + 1

\* add_reading as it would be without its last statement.
add_reading_uncounted(data, headers) ==
    /\ latest_data' = Some([sensor_data |-> data, metadata |-> Metadata(headers)])
    /\ last_updated' = Some(Now)
    /\ UNCHANGED total_received

add_reading(data, headers) ==
    /\ latest_data' = Some([sensor_data |-> data, metadata |-> Metadata(headers)])
    /\ last_updated' = Some(Now)
    /\ total_received' = total_received + 1

increment_errors == error_count' = error_count + 1

\* The page get_html_display renders: _get_no_data_html when there is no
\* reading; else _get_data_html, which raises on a payload that is no dict
\* ('sensorData' in data, data.get) after the 200 status line has gone out.
get_html_display ==
    IF latest_data = None THEN "waiting"
    ELSE IF Value(latest_data).sensor_data.type = "object" THEN "data"
    ELSE "crash"

\* The dict that GET /stats serialises.
Stats ==
    [total_received |-> total_received,
     error_count    |-> error_count,
     last_updated   |-> last_updated,
     has_data       |-> latest_data # None]

---------------------------------------------------------------------------
(* SensorHTTPRequestHandler *)

IsDataPost(req) == req.method = "POST" /\ req.path \in DataPaths

\* The response leaves and the handler returns: the history is brought up
\* to date.  Status "none" is a connection closed without a response.
Answer(req, status, page, stats) ==
    /\ clock' = Now
    /\ lastReq' = req
    /\ lastResp' = [status |-> status, page |-> page, stats |-> stats]
    /\ okPosts' = IF IsDataPost(req) /\ status = "200" THEN okPosts + 1 ELSE okPosts
    /\ errPosts' = IF IsDataPost(req) /\ status \in {"400", "500"}
                   THEN errPosts + 1 ELSE errPosts
    /\ UNCHANGED statements

\* What do_POST does with a request: whether add_reading runs and on what,
\* whether increment_errors runs, and the status the client gets.
Outcome(stored, data, headers, errors, status) ==
    [stored |-> stored, data |-> data, headers |-> headers,
     errors |-> errors, status |-> status]

\* The 404 answer as it would be if it were counted like the other errors.
NotFoundCounted == Outcome(FALSE, JNull, EmptyDict, TRUE, "404")

\* self.send_error(404, 'Not Found')
NotFound == Outcome(FALSE, JNull, EmptyDict, FALSE, "404")

\* send_error(status, ...) followed by increment_errors(): nothing is stored.
Rejected(status) == Outcome(FALSE, JNull, EmptyDict, TRUE, status)

\* An exception that leaves do_POST: socketserver logs it and closes the
\* connection; nothing is sent and nothing is counted.
Unhandled == Outcome(FALSE, JNull, EmptyDict, FALSE, "none")

\* The headers dict do_POST hands to add_reading.
ExtractHeaders(req) == [h \in HeaderNames |-> DictGet(req.headers, h, "")]

PostOutcome(req) ==
    IF req.path = "/" \/ req.path = "/sensor-data"
    THEN LET content_length == ContentLengthInt(req) IN
         IF content_length.exc # "none" THEN Unhandled
         ELSE IF content_length.value = 0 THEN Rejected("400")
         ELSE LET post_data == RfileRead(req, content_length.value)
                  parsed == JsonLoads(post_data.bytes)
              IN
              IF post_data.exc # "none" THEN Rejected("500")
              ELSE IF parsed.exc = "JSONDecodeError" THEN Rejected("400")
              ELSE IF parsed.exc # "none" THEN Rejected("500")
              ELSE LET data == parsed.value
                       headers == ExtractHeaders(req)
                       mac == DataGetMac(data)
                   IN
                   \* add_reading(data, headers) has run when the log line
                   \* is built
                   IF \/ mac.exc # "none"
                      \/ LogReceiptRaises(mac.value, headers["X-Source-IP"])
                   THEN Outcome(TRUE, data, headers, TRUE, "500")
                   ELSE Outcome(TRUE, data, headers, FALSE, "200")
    ELSE NotFound

do_GET(req) ==
    /\ req.method = "GET"
    /\ clock < MaxRequests
    /\ UNCHANGED store
    /\ UNCHANGED lastOkPayload
    /\ IF req.path = "/" \/ req.path = "/index.html"
       THEN Answer(req, "200", get_html_display, None)
       ELSE IF req.path = "/stats"
       THEN Answer(req, "200", "stats", Some(Stats))
       ELSE Answer(req, NotFound.status, "error", None)

do_POST(req) ==
    LET o == PostOutcome(req) IN
    /\ req.method = "POST"
    /\ clock < MaxRequests
    /\ IF o.stored
       THEN add_reading(o.data, o.headers)
       ELSE UNCHANGED <<latest_data, last_updated, total_received>>
    /\ IF o.errors THEN increment_errors ELSE UNCHANGED error_count
    /\ Answer(req, o.status,
              CASE o.status = "200" -> "success"
                [] o.status = "none" -> "none"
                [] OTHER -> "error",
              None)
    /\ lastOkPayload' = IF o.status = "200" THEN Some(o.data) ELSE lastOkPayload

---------------------------------------------------------------------------
(* HTTPServer.serve_forever: one request after another *)

Handlers == 1 .. MaxHandlers

StatementsInit ==
    /\ pc = [t \in Handlers |-> "idle"]
    /\ job = [t \in Handlers |-> NoRequest]
    /\ local = [t \in Handlers |-> 0]
    /\ building = [t \in Handlers |-> EmptyDict]
    /\ observed = None
    /\ committed = 0
    /\ counted = 0
    /\ quiescent = {Stats}

Init ==
    /\ StoreInit
    /\ clock = 0
    /\ lastReq = NoRequest
    /\ lastResp = [status |-> "none", page |-> "none", stats |-> None]
    /\ okPosts = 0
    /\ errPosts = 0
    /\ lastOkPayload = None
    /\ StatementsInit

Next ==
    \/ \E req \in GetRequests : do_GET(req)
    \/ \E req \in PostRequests : do_POST(req)

Spec == Init /\ [][Next]_vars

---------------------------------------------------------------------------
(* The same handlers, statement by statement.  A handler instance is made  *)
(* per request by finish_request; the server decides when the next request *)
(* is taken.                                                               *)

\* The server as it would be with ThreadingMixIn: a request is taken at any
\* time and handled in a thread of its own.
ThreadingServerReady == TRUE

\* HTTPServer runs process_request in the serving loop itself: the next
\* request is taken when the handler of the last one has returned.
ServerReady == \A t \in Handlers : pc[t] = "idle"

StepRequests ==
    {Request("GET", "/stats", Absent, "", NoHeaders),
     Request("GET", "/", Absent, "", NoHeaders),
     Request("POST", "/", "exact", "objA", NoHeaders),
     Request("POST", "/sensor-data", "exact", "objB", HeadersOf(HeaderNames)),
     Request("POST", "/", "exact", "array", NoHeaders),
     Request("POST", "/", "exact", "bad_json", NoHeaders)}

Goto(t, label) == pc' = [pc EXCEPT ![t] = label]

\* The first statement of the handler that touches the store.
Entry(req) ==
    IF req.method = "GET"
    THEN IF req.path = "/stats" THEN "stats_total" ELSE "respond"
    ELSE LET o == PostOutcome(req) IN
         IF o.stored THEN "add_latest"
         ELSE IF o.errors THEN "errors_load" ELSE "respond"

\* get_request, finish_request: a handler instance starts on a request.
Accept(t, req) ==
    /\ ServerReady
    /\ pc[t] = "idle"
    /\ clock < MaxRequests
    /\ clock' = Now
    /\ job' = [job EXCEPT ![t] = req]
    /\ Goto(t, Entry(req))
    /\ UNCHANGED <<store, history, local, building, observed, committed,
                   counted, quiescent>>

\* add_reading, first statement: self.latest_data = {...}
AddLatest(t) ==
    /\ pc[t] = "add_latest"
    /\ LET o == PostOutcome(job[t]) IN
       latest_data' = Some([sensor_data |-> o.data, metadata |-> Metadata(o.headers)])
    /\ Goto(t, "add_updated")
    /\ UNCHANGED <<last_updated, total_received, error_count, clock, history,
                   job, local, building, observed, committed, counted, quiescent>>

\* add_reading, second statement: self.last_updated = datetime.now()
AddUpdated(t) ==
    /\ pc[t] = "add_updated"
    /\ last_updated' = Some(clock)
    /\ Goto(t, "add_load")
    /\ UNCHANGED <<latest_data, total_received, error_count, clock, history,
                   job, local, building, observed, committed, counted, quiescent>>

\* add_reading, third statement, self.total_received += 1: the load
AddLoad(t) ==
    /\ pc[t] = "add_load"
    /\ local' = [local EXCEPT ![t] = total_received]
    /\ Goto(t, "add_store")
    /\ UNCHANGED <<store, clock, history, job, building, observed, committed,
                   counted, quiescent>>

\* self.total_received += 1: the store; add_reading returns
AddStore(t) ==
    /\ pc[t] = "add_store"
    /\ total_received' = local[t] + 1
    /\ committed' = committed + 1
    /\ Goto(t, IF PostOutcome(job[t]).errors THEN "errors_load" ELSE "respond")
    /\ UNCHANGED <<latest_data, last_updated, error_count, clock, history,
                   job, local, building, observed, counted, quiescent>>

\* increment_errors, self.error_count += 1: the load
ErrorsLoad(t) ==
    /\ pc[t] = "errors_load"
    /\ local' = [local EXCEPT ![t] = error_count]
    /\ Goto(t, "errors_store")
    /\ UNCHANGED <<store, clock, history, job, building, observed, committed,
                   counted, quiescent>>

\* self.error_count += 1: the store; increment_errors returns
ErrorsStore(t) ==
    /\ pc[t] = "errors_store"
    /\ error_count' = local[t] + 1
    /\ counted' = counted + 1
    /\ Goto(t, "respond")
    /\ UNCHANGED <<latest_data, last_updated, total_received, clock, history,
                   job, local, building, observed, committed, quiescent>>

\* do_GET /stats: the four values of the stats dict are read in turn.
StatsTotal(t) ==
    /\ pc[t] = "stats_total"
    /\ building' = [building EXCEPT ![t] = [total_received |-> total_received]]
    /\ Goto(t, "stats_errors")
    /\ UNCHANGED <<store, clock, history, job, local, observed, committed,
                   counted, quiescent>>

StatsErrors(t) ==
    /\ pc[t] = "stats_errors"
    /\ building' = [building EXCEPT ![t] =
                        [total_received |-> building[t].total_received,
                         error_count |-> error_count]]
    /\ Goto(t, "stats_updated")
    /\ UNCHANGED <<store, clock, history, job, local, observed, committed,
                   counted, quiescent>>

StatsUpdated(t) ==
    /\ pc[t] = "stats_updated"
    /\ building' = [building EXCEPT ![t] =
                        [total_received |-> building[t].total_received,
                         error_count |-> building[t].error_count,
                         last_updated |-> last_updated]]
    /\ Goto(t, "stats_has_data")
    /\ UNCHANGED <<store, clock, history, job, local, observed, committed,
                   counted, quiescent>>

\* The last value is read and the dict is written to the client.
StatsHasData(t) ==
    /\ pc[t] = "stats_has_data"
    /\ observed' = Some([total_received |-> building[t].total_received,
                         error_count |-> building[t].error_count,
                         last_updated |-> building[t].last_updated,
                         has_data |-> latest_data # None])
    /\ building' = [building EXCEPT ![t] = EmptyDict]
    /\ Goto(t, "respond")
    /\ UNCHANGED <<store, clock, history, job, local, committed, counted,
                   quiescent>>

\* The handler returns.  When no other handler is running the store is at
\* rest, and what GET /stats would show of it is noted.
Return(t) ==
    /\ pc[t] = "respond"
    /\ Goto(t, "idle")
    /\ job' = [job EXCEPT ![t] = NoRequest]
    /\ quiescent' = IF \A u \in Handlers \ {t} : pc[u] = "idle"
                    THEN quiescent \cup {Stats} ELSE quiescent
    /\ UNCHANGED <<store, clock, history, local, building, observed,
                   committed, counted>>

StepInit == Init

StepNext ==
    \E t \in Handlers :
        \/ \E req \in StepRequests : Accept(t, req)
        \/ AddLatest(t)
        \/ AddUpdated(t)
        \/ AddLoad(t)
        \/ AddStore(t)
        \/ ErrorsLoad(t)
        \/ ErrorsStore(t)
        \/ StatsTotal(t)
        \/ StatsErrors(t)
        \/ StatsUpdated(t)
        \/ StatsHasData(t)
        \/ Return(t)

SpecSteps == StepInit /\ [][StepNext]_vars

---------------------------------------------------------------------------
(* Properties *)

\* The last step stored a reading: add_reading ran at the time of lastReq.
StoredByLast == IsDataPost(lastReq) /\ last_updated = Some(clock)

\* Bodies that are JSON documents, whether or not the parser gets through
\* them.
ValidJson == JsonBodies \cup {"too_deep"}

\* A POST to the data endpoint whose Content-Length is the length of its
\* body.
WellFramedPost(req) == IsDataPost(req) /\ req.content_length = "exact"

MetadataHeader ==
    [source_ip        |-> "X-Source-IP",
     destination_ip   |-> "X-Destination-IP",
     destination_port |-> "X-Destination-Port",
     protocol         |-> "X-Protocol",
     timestamp        |-> "X-Timestamp",
     mqtt_topic       |-> "X-MQTT-Topic"]

MetadataFields == DOMAIN MetadataHeader

Placeholder(f) == IF f = "mqtt_topic" THEN "N/A" ELSE "unknown"

\* C1 as stated: every well-framed POST to the data endpoint whose body is
\* valid JSON, of any kind, adds exactly 1 to total_received and sets
\* last_updated to the time of the request.
C1_AnyValidJsonIsReceived ==
    [][WellFramedPost(lastReq') /\ lastReq'.body \in ValidJson
          => /\ total_received' = total_received + 1
             /\ last_updated' = Some(clock')]_vars

\* C1 amended: every well-framed POST to the data endpoint whose body
\* json.loads parses to a document adds exactly 1 to total_received and sets
\* last_updated to the time of the request.
C1_ParsedJsonIsReceived ==
    [][WellFramedPost(lastReq') /\ JsonLoads(lastReq'.body).exc = "none"
          => /\ total_received' = total_received + 1
             /\ last_updated' = Some(clock')]_vars

\* A second reading has been received: the array, by the last request.
C1_Witness ==
    /\ WellFramedPost(lastReq)
    /\ lastReq.body = "array"
    /\ total_received = 2
    /\ last_updated = Some(clock)

\* C2: every POST to the data endpoint whose non-empty body does not parse
\* as JSON adds exactly 1 to error_count and leaves latest_data,
\* last_updated and total_received as they were.
C2_MalformedJsonCountsOneError ==
    [][IsDataPost(lastReq') /\ lastReq'.body \in {"bad_json", "bad_utf8"}
          => /\ error_count' = error_count + 1
             /\ UNCHANGED <<latest_data, last_updated, total_received>>]_vars

\* C3: the counters GET /stats reports match the answers given so far:
\* total_received is the number of data-endpoint POSTs answered 200 and
\* error_count the number answered 400 or 500.
C3_CountersMatchAnswers ==
    /\ total_received = okPosts
    /\ error_count = errPosts
    /\ lastResp.stats # None =>
          /\ Value(lastResp.stats).total_received = okPosts
          /\ Value(lastResp.stats).error_count = errPosts

\* C4: the stored reading is the payload of the latest data-endpoint POST
\* answered 200, and there is none while no POST has been answered 200 (so
\* a POST answered with an error does not change it).
C4_StoredIsLatestSuccess ==
    /\ latest_data = None <=> lastOkPayload = None
    /\ latest_data # None /\ lastOkPayload # None
          => Value(latest_data).sensor_data = Value(lastOkPayload)

\* C5: after add_reading the stored reading is the new request's alone: its
\* sensor_data is the parsed body, keys and values, and each metadata field
\* is the value of the request's header, or a value that stands for a
\* missing header when the request has none.
C5_ReplacedWholesale ==
    StoredByLast =>
        LET reading == Value(latest_data) IN
        /\ latest_data # None
        /\ reading.sensor_data = JsonLoads(lastReq.body).value
        /\ DOMAIN reading.metadata = MetadataFields
        /\ \A f \in MetadataFields :
              IF MetadataHeader[f] \in DOMAIN lastReq.headers
              THEN reading.metadata[f] = lastReq.headers[MetadataHeader[f]]
              ELSE reading.metadata[f] \in {"", Placeholder(f)}

\* A reading with other keys and no headers has replaced an earlier one.
C5_Witness ==
    /\ StoredByLast
    /\ total_received = 2
    /\ lastReq.body = "objB"
    /\ lastReq.headers = NoHeaders

\* C7: a GET, and a POST to a path other than / and /sensor-data, changes
\* none of latest_data, last_updated, total_received and error_count, and a
\* request to a path that matches no route is answered 404.
C7_OnlyDataPostsChangeStore ==
    [][/\ lastReq'.method = "GET" \/ ~IsDataPost(lastReq')
          => UNCHANGED store
       /\ lastReq'.method = "GET" /\ lastReq'.path \notin {"/", "/index.html", "/stats"}
          => lastResp'.status = "404"
       /\ lastReq'.method = "POST" /\ lastReq'.path \notin DataPaths
          => lastResp'.status = "404"]_vars

\* A POST to /stats has been answered 404 with a reading and an error in
\* the store.
C7_Witness ==
    /\ lastReq.method = "POST"
    /\ lastReq.path = "/stats"
    /\ lastResp.status = "404"
    /\ total_received = 1
    /\ error_count = 1

\* C8: every POST to the data endpoint that stores no reading is answered
\* 400 or 500 and adds exactly 1 to error_count.
C8_FailedPostAnsweredAndCounted ==
    [][IsDataPost(lastReq') /\ total_received' = total_received
          => /\ lastResp'.status \in {"400", "500"}
             /\ error_count' = error_count + 1]_vars

\* C9: in the reading stored by a POST (here one answered 200), the metadata
\* field of a header the request lacks is 'unknown' ('N/A' for mqtt_topic),
\* and that of a header the request has is the header's value.
C9_MissingHeaderGetsPlaceholder ==
    StoredByLast /\ lastResp.status = "200" =>
        \A f \in MetadataFields :
            Value(latest_data).metadata[f] =
                DictGet(lastReq.headers, MetadataHeader[f], Placeholder(f))

\* C10: latest_data is present iff last_updated is iff total_received >= 1;
\* a stats dict never has has_data with no last_updated or a zero
\* total_received; the dashboard is the waiting page exactly when
\* total_received is 0.
C10_IndicatorsAgree ==
    /\ latest_data # None <=> last_updated # None
    /\ last_updated # None <=> total_received >= 1
    /\ lastResp.stats # None =>
          LET stats == Value(lastResp.stats) IN
          /\ stats.has_data <=> stats.last_updated # None
          /\ stats.has_data <=> stats.total_received >= 1
    /\ lastReq.method = "GET" /\ lastReq.path \in {"/", "/index.html"}
          => (lastResp.page = "waiting" <=> total_received = 0)

\* GET /stats has reported a reading whose payload is the JSON null.
C10_Witness ==
    /\ lastResp.stats # None
    /\ Value(lastResp.stats).has_data
    /\ Value(latest_data).sensor_data = JNull

\* C6: one request is handled to its end before the next starts; no
\* increment of a counter is lost, and no GET /stats sends values taken
\* from the middle of an add_reading.
C6_RequestsDoNotInterleave ==
    /\ Cardinality({t \in Handlers : pc[t] # "idle"}) <= 1
    /\ (\A t \in Handlers : pc[t] \in {"idle", "respond"})
          => total_received = committed /\ error_count = counted
    /\ observed \subseteq quiescent

\* Two readings have been stored and a GET /stats has then reported both.
C6_Witness ==
    /\ committed = 2
    /\ observed # None
    /\ Value(observed).total_received = 2
    /\ \A t \in Handlers : pc[t] = "idle"

===========================================================================
